---- MODULE Spec2Model ----
(***************************************************************************)
(* Model of github.com/aodin/csv2 (src/csv2.go, lines 1-317): a Reader and *)
(* a Writer that map rows of text tokens to typed records by reflection.   *)
(*                                                                         *)
(* A token is a sequence of one-character strings.  The conversions of the *)
(* strconv and time packages that setValue and getStrings call are         *)
(* operators on such sequences.                                            *)
(***************************************************************************)
EXTENDS Integers, Sequences, FiniteSets, TLC

(***************************************************************************)
(* Bounds                                                                  *)
(***************************************************************************)
\* longest input the tokenizer can hold (rows and pull errors together)
MaxRows == 2
\* number of API calls made on the Reader/Writer pair in one behaviour
MaxCalls == 2
\* rows the tokenizer's write buffer holds before it must drain
BufCap == 2

(***************************************************************************)
(* Characters and numerals                                                 *)
(***************************************************************************)
Digits == <<"0", "1", "2", "3", "4", "5", "6", "7", "8", "9">>

isDigit(c) == \E d \in 1..10 : Digits[d] = c

digitVal(c) == (CHOOSE d \in 1..10 : Digits[d] = c) - 1

allDigits(s) == \A k \in 1..Len(s) : isDigit(s[k])

RECURSIVE atoi(_)
\* value of a non-empty digit sequence, most significant digit first
atoi(s) ==
    IF Len(s) = 0 THEN 0
    ELSE atoi(SubSeq(s, 1, Len(s) - 1)) * 10 + digitVal(s[Len(s)])

RECURSIVE itoa(_)
\* decimal digits of a natural number, no leading zero
itoa(n) ==
    IF n < 10 THEN <<Digits[n + 1]>>
    ELSE Append(itoa(n \div 10), Digits[(n % 10) + 1])

RECURSIVE pow10(_)
pow10(n) == IF n = 0 THEN 1 ELSE 10 * pow10(n - 1)

RECURSIVE zeros(_)
zeros(n) == IF n <= 0 THEN <<>> ELSE <<"0">> \o zeros(n - 1)

\* decimal digits of n, left-padded with zeros to at least w characters
zeroPad(n, w) == zeros(w - Len(itoa(n))) \o itoa(n)

Tail2(s, n) == SubSeq(s, n + 1, Len(s))

lower(c) ==
    CASE c = "N" -> "n"
      [] c = "A" -> "a"
      [] c = "I" -> "i"
      [] c = "F" -> "f"
      [] c = "J" -> "j"
      [] c = "O" -> "o"
      [] c = "U" -> "u"
      [] c = "L" -> "l"
      [] c = "T" -> "t"
      [] c = "C" -> "c"
      [] OTHER -> c

lowerAll(s) == [k \in 1..Len(s) |-> lower(s[k])]

(***************************************************************************)
(* strconv                                                                 *)
(***************************************************************************)
\* strconv.ParseInt(s, 10, 64): optional sign, then one or more digits.
ParseInt(s) ==
    LET signed == Len(s) > 0 /\ s[1] \in {"+", "-"}
        body == IF signed THEN Tail2(s, 1) ELSE s
    IN  IF Len(body) = 0 \/ ~allDigits(body)
        THEN [ok |-> FALSE, v |-> 0]
        ELSE [ok |-> TRUE,
              v |-> IF signed /\ s[1] = "-" THEN 0 - atoi(body) ELSE atoi(body)]

\* strconv.FormatInt(v, 10)
FormatInt(v) == IF v < 0 THEN <<"-">> \o itoa(0 - v) ELSE itoa(v)

\* strconv.ParseBool
ParseBool(s) ==
    IF s \in {<<"1">>, <<"t">>, <<"T">>, <<"T", "R", "U", "E">>,
              <<"t", "r", "u", "e">>, <<"T", "r", "u", "e">>}
    THEN [ok |-> TRUE, v |-> TRUE]
    ELSE IF s \in {<<"0">>, <<"f">>, <<"F">>, <<"F", "A", "L", "S", "E">>,
                   <<"f", "a", "l", "s", "e">>, <<"F", "a", "l", "s", "e">>}
    THEN [ok |-> TRUE, v |-> FALSE]
    ELSE [ok |-> FALSE, v |-> FALSE]

\* strconv.FormatBool
FormatBool(b) == IF b THEN <<"t", "r", "u", "e">> ELSE <<"f", "a", "l", "s", "e">>

(***************************************************************************)
(* float64.  A finite value is (-1)^neg * m * 10^(-e), kept normalised     *)
(* (e = 0 or m not a multiple of 10); cls tells finite, infinite and NaN   *)
(* apart.                                                                  *)
(***************************************************************************)
RECURSIVE normFloat(_, _)
normFloat(m, e) ==
    IF e > 0 /\ m % 10 = 0 THEN normFloat(m \div 10, e - 1) ELSE [m |-> m, e |-> e]

mkFloat(neg, m, e) ==
    LET n == normFloat(m, e)
    IN  [cls |-> "fin", neg |-> neg, m |-> n.m, e |-> n.e]

FloatNaN == [cls |-> "nan", neg |-> FALSE, m |-> 0, e |-> 0]

FloatInf(neg) == [cls |-> "inf", neg |-> neg, m |-> 0, e |-> 0]

FloatErr == [ok |-> FALSE, v |-> mkFloat(FALSE, 0, 0)]

\* index of the first position of s holding c, or 0
indexOf(s, c) ==
    IF \E k \in 1..Len(s) : s[k] = c
    THEN CHOOSE k \in 1..Len(s) : s[k] = c /\ \A j \in 1..(k - 1) : s[j] # c
    ELSE 0

\* strconv.ParseFloat(s, 64) on decimal input: [sign] digits [. digits]
\* [e [sign] digits], or inf / infinity / nan in any letter case.
ParseFloat(s) ==
    LET signed == Len(s) > 0 /\ s[1] \in {"+", "-"}
        neg == signed /\ s[1] = "-"
        body == lowerAll(IF signed THEN Tail2(s, 1) ELSE s)
        ePos == indexOf(body, "e")
        mant == IF ePos = 0 THEN body ELSE SubSeq(body, 1, ePos - 1)
        expo == IF ePos = 0 THEN <<>> ELSE Tail2(body, ePos)
        dot == indexOf(mant, ".")
        ip == IF dot = 0 THEN mant ELSE SubSeq(mant, 1, dot - 1)
        fp == IF dot = 0 THEN <<>> ELSE Tail2(mant, dot)
        x == ParseInt(expo)
        shift == IF ePos = 0 THEN 0 ELSE x.v
        m == atoi(ip \o fp)
    IN  IF body \in {<<"i", "n", "f">>, <<"i", "n", "f", "i", "n", "i", "t", "y">>}
        THEN [ok |-> TRUE, v |-> FloatInf(neg)]
        ELSE IF body = <<"n", "a", "n">>
        THEN IF signed THEN FloatErr ELSE [ok |-> TRUE, v |-> FloatNaN]
        ELSE IF Len(ip) + Len(fp) = 0 \/ ~allDigits(ip) \/ ~allDigits(fp)
        THEN FloatErr
        ELSE IF ePos # 0 /\ ~x.ok
        THEN FloatErr
        ELSE IF shift >= Len(fp)
        THEN [ok |-> TRUE, v |-> mkFloat(neg, m * pow10(shift - Len(fp)), 0)]
        ELSE [ok |-> TRUE, v |-> mkFloat(neg, m, Len(fp) - shift)]

\* strconv.FormatFloat(f, 'f', -1, 64): shortest decimal that parses back
FormatFloat(f) ==
    IF f.cls = "nan" THEN <<"N", "a", "N">>
    ELSE IF f.cls = "inf"
    THEN (IF f.neg THEN <<"-">> ELSE <<"+">>) \o <<"I", "n", "f">>
    ELSE (IF f.neg THEN <<"-">> ELSE <<>>)
         \o itoa(f.m \div pow10(f.e))
         \o (IF f.e = 0 THEN <<>>
             ELSE <<".">> \o zeroPad(f.m % pow10(f.e), f.e))

(***************************************************************************)
(* time.  A Time is the wall clock reading and the zone offset in minutes. *)
(* A layout is cut into chunks as time.nextStdChunk does: the std* chunks  *)
(* stand for the reference-time elements, every other chunk is literal.    *)
(***************************************************************************)
RFC3339 == "2006-01-02T15:04:05Z07:00"

layoutChunks(layout) ==
    CASE layout = RFC3339 ->
           <<"stdLongYear", "-", "stdZeroMonth", "-", "stdZeroDay", "T",
             "stdHour", ":", "stdZeroMinute", ":", "stdZeroSecond",
             "stdISO8601ColonTZ">>
      [] layout = "Jan _2" -> <<"stdMonth", " ", "stdUnderDay">>
      [] OTHER -> <<>>

monthNames ==
    <<<<"J", "a", "n">>, <<"F", "e", "b">>, <<"M", "a", "r">>,
      <<"A", "p", "r">>, <<"M", "a", "y">>, <<"J", "u", "n">>,
      <<"J", "u", "l">>, <<"A", "u", "g">>, <<"S", "e", "p">>,
      <<"O", "c", "t">>, <<"N", "o", "v">>, <<"D", "e", "c">>>>

isLeap(year) == year % 4 = 0 /\ (year % 100 # 0 \/ year % 400 = 0)

daysIn(month, year) ==
    IF month = 2 THEN (IF isLeap(year) THEN 29 ELSE 28)
    ELSE IF month \in {4, 6, 9, 11} THEN 30 ELSE 31

mkTime(year, month, day, hour, min, sec, nsec, off) ==
    [year |-> year, month |-> month, day |-> day, hour |-> hour,
     min |-> min, sec |-> sec, nsec |-> nsec, off |-> off]

\* the zero time.Time: January 1, year 1, 00:00:00 UTC
zeroTime == mkTime(1, 1, 1, 0, 0, 0, 0, 0)

\* time.getnum: one or two leading digits (exactly two when fixed)
getnum(value, fixed) ==
    IF Len(value) = 0 \/ ~isDigit(value[1])
    THEN [ok |-> FALSE, n |-> 0, rest |-> value]
    ELSE IF Len(value) < 2 \/ ~isDigit(value[2])
    THEN IF fixed THEN [ok |-> FALSE, n |-> 0, rest |-> value]
         ELSE [ok |-> TRUE, n |-> digitVal(value[1]), rest |-> Tail2(value, 1)]
    ELSE [ok |-> TRUE, n |-> atoi(SubSeq(value, 1, 2)), rest |-> Tail2(value, 2)]

RECURSIVE digitRun(_)
\* length of the longest all-digit prefix
digitRun(s) == IF Len(s) = 0 \/ ~isDigit(s[1]) THEN 0 ELSE 1 + digitRun(Tail(s))

\* state of time.Parse while it walks the layout
parseStart(value) ==
    [ok |-> TRUE, value |-> value, year |-> 0, month |-> -1, day |-> -1,
     hour |-> 0, min |-> 0, sec |-> 0, nsec |-> 0, off |-> 0]

parseFail(st) == [st EXCEPT !.ok = FALSE]

\* the fractional second time.Parse accepts after the seconds field even
\* when the layout has none
parseFraction(st) ==
    LET v == st.value
        n == IF Len(v) >= 2 /\ v[1] = "." THEN digitRun(Tail(v)) ELSE 0
        k == IF n > 9 THEN 9 ELSE n
    IN  IF n = 0 THEN st
        ELSE [st EXCEPT !.nsec = atoi(SubSeq(v, 2, k + 1)) * pow10(9 - k),
                        !.value = Tail2(v, n + 1)]

parseZone(st) ==
    LET v == st.value
        hh == getnum(Tail2(v, 1), TRUE)
        mm == getnum(Tail2(v, 4), TRUE)
    IN  IF Len(v) >= 1 /\ v[1] = "Z" THEN [st EXCEPT !.value = Tail2(v, 1)]
        ELSE IF Len(v) < 6 \/ v[1] \notin {"+", "-"} \/ v[4] # ":"
                \/ ~hh.ok \/ ~mm.ok \/ hh.n >= 24 \/ mm.n >= 60
        THEN parseFail(st)
        ELSE [st EXCEPT !.off = (IF v[1] = "-" THEN -1 ELSE 1) * (hh.n * 60 + mm.n),
                        !.value = Tail2(v, 6)]

\* one chunk of the layout consumed from the front of the value
parseChunk(st, chunk) ==
    LET v == st.value
    IN  CASE chunk = "stdLongYear" ->
               IF Len(v) < 4 \/ ~allDigits(SubSeq(v, 1, 4)) THEN parseFail(st)
               ELSE [st EXCEPT !.year = atoi(SubSeq(v, 1, 4)), !.value = Tail2(v, 4)]
          [] chunk = "stdMonth" ->
               IF Len(v) < 3
                  \/ ~\E m \in 1..12 : lowerAll(monthNames[m]) = lowerAll(SubSeq(v, 1, 3))
               THEN parseFail(st)
               ELSE [st EXCEPT
                       !.month = CHOOSE m \in 1..12 :
                                   lowerAll(monthNames[m]) = lowerAll(SubSeq(v, 1, 3)),
                       !.value = Tail2(v, 3)]
          [] chunk = "stdZeroMonth" ->
               LET g == getnum(v, TRUE)
               IN  IF ~g.ok \/ g.n <= 0 \/ g.n > 12 THEN parseFail(st)
                   ELSE [st EXCEPT !.month = g.n, !.value = g.rest]
          [] chunk = "stdUnderDay" ->
               LET g == getnum(IF Len(v) > 0 /\ v[1] = " " THEN Tail2(v, 1) ELSE v, FALSE)
               IN  IF ~g.ok THEN parseFail(st)
                   ELSE [st EXCEPT !.day = g.n, !.value = g.rest]
          [] chunk = "stdZeroDay" ->
               LET g == getnum(v, TRUE)
               IN  IF ~g.ok THEN parseFail(st)
                   ELSE [st EXCEPT !.day = g.n, !.value = g.rest]
          [] chunk = "stdHour" ->
               LET g == getnum(v, FALSE)
               IN  IF ~g.ok \/ g.n >= 24 THEN parseFail(st)
                   ELSE [st EXCEPT !.hour = g.n, !.value = g.rest]
          [] chunk = "stdZeroMinute" ->
               LET g == getnum(v, TRUE)
               IN  IF ~g.ok \/ g.n >= 60 THEN parseFail(st)
                   ELSE [st EXCEPT !.min = g.n, !.value = g.rest]
          [] chunk = "stdZeroSecond" ->
               LET g == getnum(v, TRUE)
               IN  IF ~g.ok \/ g.n >= 60 THEN parseFail(st)
                   ELSE parseFraction([st EXCEPT !.sec = g.n, !.value = g.rest])
          [] chunk = "stdISO8601ColonTZ" -> parseZone(st)
          [] OTHER ->
               IF Len(v) < 1 \/ v[1] # chunk THEN parseFail(st)
               ELSE [st EXCEPT !.value = Tail2(v, 1)]

RECURSIVE parseChunks(_, _)
parseChunks(st, chunks) ==
    IF ~st.ok \/ Len(chunks) = 0 THEN st
    ELSE parseChunks(parseChunk(st, Head(chunks)), Tail(chunks))

\* the end of time.Parse: no text may be left, a missing month or day is 1,
\* and the day must exist in the month
parseEnd(st) ==
    LET month == IF st.month < 0 THEN 1 ELSE st.month
        day == IF st.day < 0 THEN 1 ELSE st.day
    IN  IF ~st.ok \/ Len(st.value) # 0 \/ day < 1 \/ day > daysIn(month, st.year)
        THEN [ok |-> FALSE, v |-> zeroTime]
        ELSE [ok |-> TRUE,
              v |-> mkTime(st.year, month, day, st.hour, st.min, st.sec,
                           st.nsec, st.off)]

\* time.Parse(layout, value)
ParseTime(layout, value) ==
    parseEnd(parseChunks(parseStart(value), layoutChunks(layout)))

formatChunk(t, chunk) ==
    CASE chunk = "stdLongYear" -> zeroPad(t.year, 4)
      [] chunk = "stdMonth" -> monthNames[t.month]
      [] chunk = "stdZeroMonth" -> zeroPad(t.month, 2)
      [] chunk = "stdUnderDay" ->
           (IF t.day < 10 THEN <<" ">> ELSE <<>>) \o itoa(t.day)
      [] chunk = "stdZeroDay" -> zeroPad(t.day, 2)
      [] chunk = "stdHour" -> zeroPad(t.hour, 2)
      [] chunk = "stdZeroMinute" -> zeroPad(t.min, 2)
      [] chunk = "stdZeroSecond" -> zeroPad(t.sec, 2)
      [] chunk = "stdISO8601ColonTZ" ->
           IF t.off = 0 THEN <<"Z">>
           ELSE LET a == IF t.off < 0 THEN 0 - t.off ELSE t.off
                IN  (IF t.off < 0 THEN <<"-">> ELSE <<"+">>)
                    \o zeroPad(a \div 60, 2) \o <<":">> \o zeroPad(a % 60, 2)
      [] OTHER -> <<chunk>>

RECURSIVE formatChunks(_, _)
formatChunks(t, chunks) ==
    IF Len(chunks) = 0 THEN <<>>
    ELSE formatChunk(t, Head(chunks)) \o formatChunks(t, Tail(chunks))

\* Time.Format(layout)
FormatTime(t, layout) == formatChunks(t, layoutChunks(layout))

(***************************************************************************)
(* Record types.  A record type is the sequence of its fields in           *)
(* declaration order; a field has a name, a reflect.Kind, the name of its  *)
(* type, the value of its `csv` tag and whether it is exported.            *)
(***************************************************************************)
Field(name, kind, typ, tag) ==
    [name |-> name, kind |-> kind, typ |-> typ, tag |-> tag, exported |-> TRUE]

\* csv2_test.go:17 (Abbrev and Population left out: same kinds as Name, ID)
country ==
    <<Field("ID", "Int64", "int64", ""),
      Field("Name", "String", "string", ""),
      Field("GDP", "Float64", "float64", ""),
      Field("Founded", "Struct", "time.Time", ""),
      Field("Freedom", "Bool", "bool", "")>>

\* csv2_test.go:30
nullableCountry ==
    <<Field("ID", "Ptr", "*int64", ""),
      Field("Name", "String", "string", ""),
      Field("GDP", "Ptr", "*float64", ""),
      Field("Founded", "Ptr", "*time.Time", ""),
      Field("Freedom", "Ptr", "*bool", "")>>

\* csv2_test.go:59
holiday ==
    <<Field("Name", "String", "string", ""),
      Field("Day", "Struct", "time.Time", "Jan _2")>>

\* csv2_test.go:69
badHoliday ==
    <<Field("Name", "Slice", "[]byte", ""),
      Field("Day", "Struct", "time.Time", "Jan _2")>>

\* csv2_test.go:74
badHolidayPointer ==
    <<Field("Name", "Ptr", "*[]byte", ""),
      Field("Day", "Struct", "time.Time", "Jan _2")>>

NumField(T) == Len(T)

\* the absent value of a pointer field, and a present one
NilPtr == [nil |-> TRUE, v |-> 0]

PtrTo(v) == [nil |-> FALSE, v |-> v]

\* the zero value of a field, as reflect.New(elem).Elem() leaves it
zeroOf(f) ==
    CASE f.kind = "String" -> <<>>
      [] f.kind = "Int64" -> 0
      [] f.kind = "Float64" -> mkFloat(FALSE, 0, 0)
      [] f.kind = "Bool" -> FALSE
      [] f.kind = "Struct" -> zeroTime
      [] f.kind = "Ptr" -> NilPtr
      [] OTHER -> <<>>

zeroRecord(T) == [k \in 1..Len(T) |-> zeroOf(T[k])]

(***************************************************************************)
(* Go values handed to the API as interface{}.  A value has a kind, the    *)
(* type of its elements (of itself, for a struct) and its items: the       *)
(* records of a slice, the one record of a struct.  An argument is such a  *)
(* value, passed as it is or by pointer.                                   *)
(***************************************************************************)
StructType(T) == [kind |-> "Struct", pointee |-> "", fields |-> T]

\* pointer to a struct, pointer to an int64
PtrType(T) == [kind |-> "Ptr", pointee |-> "Struct", fields |-> T]

PtrInt64Type == [kind |-> "Ptr", pointee |-> "Int64", fields |-> <<>>]

Int64Type == [kind |-> "Int64", pointee |-> "", fields |-> <<>>]

SliceOf(elem, items) == [kind |-> "Slice", elem |-> elem, items |-> items]

StructVal(T, rec) == [kind |-> "Struct", elem |-> StructType(T), items |-> <<rec>>]

IntVal == [kind |-> "Int", elem |-> Int64Type, items |-> <<>>]

Arg(ptr, val) == [ptr |-> ptr, val |-> val]

(***************************************************************************)
(* Errors.  field is the field position the error text names, -1 if none.  *)
(***************************************************************************)
Err(name, field) == [err |-> name, field |-> field]

Nil == Err("nil", -1)

ErrNotPointer == Err("ErrNotPointer", -1)

ErrNotSlice == Err("ErrNotSlice", -1)

ErrNotStruct == Err("ErrNotStruct", -1)

ErrUnwritable == Err("ErrUnwritable", -1)

\* io.EOF, and any other error of the tokenizer
EOF == Err("EOF", -1)

ErrPull == Err("ErrPull", -1)

ErrWrite == Err("ErrWrite", -1)

\* a run-time panic (index out of range, reflect misuse): no value returned
Panic == Err("panic", -1)

(***************************************************************************)
(* GetFieldNames, setLayout                                                *)
(***************************************************************************)
\* faulty variant: a slice of pointers to structs is refused
GetFieldNames_NoPointerElem(i) ==
    LET value == i.val
        elem == value.elem
    IN  IF value.kind = "Struct" \/ (value.kind = "Slice" /\ elem.kind = "Struct")
        THEN [err |-> Nil,
              names |-> [k \in 1..NumField(elem.fields) |-> elem.fields[k].name]]
        ELSE [err |-> ErrUnwritable, names |-> <<>>]

\* reflect.Indirect(reflect.ValueOf(i)) sees through one pointer
GetFieldNames(i) ==
    LET value == i.val
        elem == value.elem
    IN  CASE value.kind = "Struct" ->
               [err |-> Nil,
                names |-> [k \in 1..NumField(elem.fields) |-> elem.fields[k].name]]
          [] value.kind = "Slice" ->
               IF elem.kind = "Struct" \/ (elem.kind = "Ptr" /\ elem.pointee = "Struct")
               THEN [err |-> Nil,
                     names |-> [k \in 1..NumField(elem.fields) |-> elem.fields[k].name]]
               ELSE [err |-> ErrUnwritable, names |-> <<>>]
          [] OTHER -> [err |-> ErrUnwritable, names |-> <<>>]

\* the map from field position (from 0) to a non-empty csv tag
setLayout(T) ==
    [p \in {q \in 0..(NumField(T) - 1) : T[q + 1].tag # ""} |-> T[p + 1].tag]

\* r.layout[i]: the empty string for a missing key
layoutAt(layout, i) == IF i \in DOMAIN layout THEN layout[i] ELSE ""

(***************************************************************************)
(* setValue: decode the tokens of one row into a record, field by field.   *)
(* The result is the error and the record as the loop left it.             *)
(***************************************************************************)
\* the outcome of a conversion r as the field's new value or the error
converted(r, e) == [err |-> IF r.ok THEN Nil ELSE Err(e, -1), v |-> r.v]

\* one field: the token converted under the field's kind
setField(f, i, values, layout) ==
    CASE ~f.exported -> [err |-> Err("ErrCannotSet", i), v |-> 0]
      [] f.exported /\ f.kind = "Struct" /\ f.typ # "time.Time" ->
           [err |-> Err("ErrUnknownStruct", i), v |-> 0]
      [] f.exported /\ f.kind \notin {"String", "Int64", "Float64", "Bool", "Struct"} ->
           [err |-> Err("ErrUnsupported", i), v |-> 0]
      [] OTHER ->
           IF i >= Len(values) THEN [err |-> Panic, v |-> 0]
           ELSE CASE f.kind = "String" -> [err |-> Nil, v |-> values[i + 1]]
                  [] f.kind = "Int64" ->
                       converted(ParseInt(values[i + 1]), "ErrSyntax")
                  [] f.kind = "Float64" ->
                       converted(ParseFloat(values[i + 1]), "ErrSyntax")
                  [] f.kind = "Bool" ->
                       converted(ParseBool(values[i + 1]), "ErrSyntax")
                  [] f.kind = "Struct" ->
                       converted(ParseTime(IF layoutAt(layout, i) = "" THEN RFC3339
                                           ELSE layoutAt(layout, i),
                                           values[i + 1]),
                                 "ErrParseTime")

RECURSIVE setValueFrom(_, _, _, _, _)
RECURSIVE setValueNext(_, _, _, _, _, _)
\* the loop of setValue from field i on
setValueFrom(i, values, rec, T, layout) ==
    IF i >= NumField(T) THEN [err |-> Nil, rec |-> rec]
    ELSE setValueNext(setField(T[i + 1], i, values, layout), i, values, rec, T, layout)

\* the loop after field i was converted with outcome r: stop at an error,
\* else store the value and go on
setValueNext(r, i, values, rec, T, layout) ==
    IF r.err # Nil THEN [err |-> r.err, rec |-> rec]
    ELSE setValueFrom(i + 1, values, [rec EXCEPT ![i + 1] = r.v], T, layout)

setValue(values, rec, T, layout) == setValueFrom(0, values, rec, T, layout)

(***************************************************************************)
(* getStrings: encode one record as a row of tokens.                       *)
(***************************************************************************)
\* faulty variant: the csv tag of a time field is not consulted
getField_DefaultLayout(f, i, v, layout) ==
    CASE f.kind = "String" -> [err |-> Nil, s |-> v]
      [] f.kind = "Int64" -> [err |-> Nil, s |-> FormatInt(v)]
      [] f.kind = "Float64" -> [err |-> Nil, s |-> FormatFloat(v)]
      [] f.kind = "Bool" -> [err |-> Nil, s |-> FormatBool(v)]
      [] f.kind = "Struct" ->
           IF ~f.exported THEN [err |-> Panic, s |-> <<>>]
           ELSE IF f.typ # "time.Time"
           THEN [err |-> Err("ErrUnsupportedStruct", i), s |-> <<>>]
           ELSE [err |-> Nil, s |-> FormatTime(v, RFC3339)]
      [] OTHER -> [err |-> Err("ErrUnsupported", i), s |-> <<>>]

\* one field: the value formatted under the field's kind
getField(f, i, v, layout) ==
    CASE f.kind = "String" -> [err |-> Nil, s |-> v]
      [] f.kind = "Int64" -> [err |-> Nil, s |-> FormatInt(v)]
      [] f.kind = "Float64" -> [err |-> Nil, s |-> FormatFloat(v)]
      [] f.kind = "Bool" -> [err |-> Nil, s |-> FormatBool(v)]
      [] f.kind = "Struct" ->
           IF ~f.exported THEN [err |-> Panic, s |-> <<>>]
           ELSE IF f.typ # "time.Time"
           THEN [err |-> Err("ErrUnsupportedStruct", i), s |-> <<>>]
           ELSE LET l == layoutAt(layout, i)
                IN  [err |-> Nil, s |-> FormatTime(v, IF l = "" THEN RFC3339 ELSE l)]
      [] OTHER -> [err |-> Err("ErrUnsupported", i), s |-> <<>>]

RECURSIVE getStringsFrom(_, _, _, _, _)
RECURSIVE getStringsNext(_, _, _, _, _, _)
\* the loop of getStrings from field i on
getStringsFrom(i, output, rec, T, layout) ==
    IF i >= NumField(T) THEN [err |-> Nil, output |-> output]
    ELSE getStringsNext(getField(T[i + 1], i, rec[i + 1], layout), i, output, rec, T, layout)

\* the loop after field i was formatted with outcome r
getStringsNext(r, i, output, rec, T, layout) ==
    IF r.err # Nil THEN [err |-> r.err, output |-> output]
    ELSE getStringsFrom(i + 1, [output EXCEPT ![i + 1] = r.s], rec, T, layout)

getStrings(rec, T, layout) ==
    getStringsFrom(0, [k \in 1..NumField(T) |-> <<>>], rec, T, layout)

(***************************************************************************)
(* Data of the model: the tokens, rows and records of csv2_test.go, cut    *)
(* down to the five fields of country above.                               *)
(***************************************************************************)
Str_1776 ==
    <<"1", "7", "7", "6", "-", "0", "7", "-", "0", "4", "T",
      "0", "0", ":", "0", "0", ":", "0", "0", "Z">>

Str_1867 ==
    <<"1", "8", "6", "7", "-", "0", "7", "-", "0", "1", "T",
      "0", "0", ":", "0", "0", ":", "0", "0", "Z">>

Str_true == <<"t", "r", "u", "e">>

Str_false == <<"f", "a", "l", "s", "e">>

Str_Jul4 == <<"J", "u", "l", " ", "4">>

Str_Oct31 == <<"O", "c", "t", " ", "3", "1">>

rowUS == <<<<"2">>, <<"U", "S">>, <<"1", "7", ".", "4", "3", "8">>, Str_1776, Str_true>>

rowCA == <<<<"3">>, <<"C", "A">>, <<"1", ".", "5">>, Str_1867, Str_false>>

\* the last token is no boolean literal
rowBadBool == <<<<"4">>, <<"M", "X">>, <<"1">>, Str_1867, <<"n", "o">>>>

\* the second row of nullExample
rowNull == <<<<>>, <<>>, <<>>, <<>>, <<>>>>

rowJul4 == <<<<"a">>, Str_Jul4>>

rowOct31 == <<<<"b">>, Str_Oct31>>

\* a holiday row with one token too many
rowLong == <<<<"c">>, Str_Jul4, <<"x">>>>

\* a holiday row with one token too few
rowShort == <<<<"d">>>>

RowSet == {rowUS, rowCA, rowBadBool, rowNull, rowJul4, rowOct31, rowLong, rowShort}

\* what one pull of the tokenizer can deliver: a row, or an error
PullSet == {[err |-> FALSE, row |-> r] : r \in RowSet} \cup {[err |-> TRUE, row |-> <<>>]}

Inputs == UNION {[1..n -> PullSet] : n \in 0..MaxRows}

t1776 == mkTime(1776, 7, 4, 0, 0, 0, 0, 0)

\* a time of day, a fraction of a second and a zone offset
t1867 == mkTime(1867, 7, 1, 12, 30, 5, 500000000, -90)

recUS == <<2, <<"U", "S">>, mkFloat(FALSE, 17438, 3), t1776, TRUE>>

recOld == <<7, <<"o", "l", "d">>, mkFloat(TRUE, 5, 1), t1867, TRUE>>

recHoliday == <<<<"h">>, mkTime(0, 12, 25, 0, 0, 0, 0, 0)>>

UnmarshalArgs ==
    {Arg(TRUE, SliceOf(StructType(country), <<recOld>>)),
     Arg(TRUE, SliceOf(StructType(holiday), <<>>)),
     Arg(TRUE, SliceOf(StructType(nullableCountry), <<>>)),
     Arg(TRUE, SliceOf(StructType(badHoliday), <<>>)),
     Arg(TRUE, SliceOf(StructType(badHolidayPointer), <<>>)),
     Arg(TRUE, SliceOf(PtrType(country), <<>>)),
     Arg(TRUE, SliceOf(Int64Type, <<>>)),
     Arg(TRUE, StructVal(country, recOld)),
     Arg(FALSE, SliceOf(StructType(country), <<recOld>>))}

UnmarshalOneArgs ==
    {Arg(TRUE, StructVal(country, recOld)),
     Arg(TRUE, StructVal(holiday, recHoliday)),
     Arg(FALSE, StructVal(country, recOld)),
     Arg(TRUE, IntVal),
     Arg(TRUE, SliceOf(StructType(country), <<>>))}

(***************************************************************************)
(* State                                                                   *)
(***************************************************************************)
VARIABLES
    input,      \* the tokenizer's input: what each pull delivers, then EOF
    pos,        \* the tokenizer's read position: pulls consumed so far
    layout,     \* Reader.layout
    pc,         \* "idle", "Unmarshal" (inside the read loop), "panic"
    call,       \* the running or last call: operation, argument by pointer?
    dest,       \* the caller's variable the argument is, or points to
    dest0,      \* dest when the call began
    pos0,       \* pos when the call began
    layout0,    \* Reader.layout when the call began
    pulls,      \* calls of the tokenizer's Read made by the call
    ret,        \* the value the last call returned
    ncalls      \* calls made so far

rvars == <<input, pos, layout, pc, call, dest, dest0, pos0, layout0, pulls, ret, ncalls>>

VARIABLES
    ioFail,     \* the stream under the tokenizer's writer refuses every write
    out,        \* the tokenizer's writer: rows buffered, rows that reached
                \* the stream, and its sticky error
    wlayout,    \* Writer.layout
    wpc,        \* "idle", "Marshal" (inside the write loop), "panic"
    wcall,      \* the running or last call on the Writer
    src,        \* the value the argument is, or points to
    idx,        \* index of Marshal's loop
    wlog,       \* the calls of Write and Flush the call made, in order
    wret,       \* the value the last call returned
    names,      \* the result of the last GetFieldNames
    wncalls     \* calls made so far

wvars == <<ioFail, out, wlayout, wpc, wcall, src, idx, wlog, wret, names, wncalls>>

VARIABLE
    rt          \* a record on its way through getStrings and back through setValue

vars == <<rvars, wvars, rt>>

\* csv.Reader.Read: the next row, the tokenizer's error, or io.EOF
Read(in, p) ==
    IF p >= Len(in) THEN [err |-> EOF, record |-> <<>>, pos |-> p]
    ELSE IF in[p + 1].err THEN [err |-> ErrPull, record |-> <<>>, pos |-> p + 1]
    ELSE [err |-> Nil, record |-> in[p + 1].row, pos |-> p + 1]

InitReader ==
    /\ pos = 0
    /\ layout = <<>>
    /\ pc = "idle"
    /\ call = [op |-> "none", ptr |-> FALSE]
    /\ dest = IntVal
    /\ dest0 = IntVal
    /\ pos0 = 0
    /\ layout0 = <<>>
    /\ pulls = 0
    /\ ret = Nil
    /\ ncalls = 0

\* entry of a call: the caller's variable and the read position are noted
Enter(op, i) ==
    /\ pc = "idle"
    /\ ncalls < MaxCalls
    /\ ncalls' = ncalls + 1
    /\ call' = [op |-> op, ptr |-> i.ptr]
    /\ dest0' = i.val
    /\ pos0' = pos
    /\ layout0' = layout
    /\ UNCHANGED <<input, wvars, rt>>

Return(e) ==
    /\ ret' = e
    /\ pc' = IF e = Panic THEN "panic" ELSE "idle"

\* faulty variant: the element type of the slice is not looked at
checkSliceOfStructs_AnyElem(i) ==
    IF ~i.ptr THEN ErrNotPointer
    ELSE IF i.val.kind # "Slice" THEN ErrNotSlice
    ELSE Nil

\* faulty variant: the kinds of the fields are checked with the destination,
\* before any row is read
checkSliceOfStructs_FieldKinds(i) ==
    IF ~i.ptr THEN ErrNotPointer
    ELSE IF i.val.kind # "Slice" THEN ErrNotSlice
    ELSE IF i.val.elem.kind # "Struct" THEN ErrNotSlice
    ELSE IF \E k \in 1..Len(i.val.elem.fields) :
                i.val.elem.fields[k].kind
                    \notin {"String", "Int64", "Float64", "Bool", "Struct"}
    THEN Err("ErrUnsupported", -1)
    ELSE Nil

\* the checks Reader.Unmarshal makes of its destination
checkSliceOfStructs(i) ==
    IF ~i.ptr THEN ErrNotPointer
    ELSE IF i.val.kind # "Slice" THEN ErrNotSlice
    ELSE IF i.val.elem.kind # "Struct" THEN ErrNotSlice
    ELSE Nil

\* the checks Reader.UnmarshalOne makes of its destination
checkStruct(i) ==
    IF ~i.ptr THEN ErrNotPointer
    ELSE IF i.val.kind # "Struct" THEN ErrNotStruct
    ELSE Nil

\* Reader.Unmarshal up to the read loop
Unmarshal(i) ==
    /\ Enter("Unmarshal", i)
    /\ dest' = i.val
    /\ UNCHANGED pos
    /\ pulls' = 0
    /\ IF checkSliceOfStructs(i) # Nil
       THEN Return(checkSliceOfStructs(i)) /\ UNCHANGED layout
       ELSE /\ layout' = setLayout(i.val.elem.fields)
            /\ pc' = "Unmarshal"
            /\ ret' = Nil

\* faulty variant: the new record is put in front of the slice
Decoded_Prepend(r) ==
    IF r.err # Nil THEN Return(r.err) /\ UNCHANGED dest
    ELSE /\ dest' = [dest EXCEPT !.items = <<r.rec>> \o dest.items]
         /\ UNCHANGED <<pc, ret>>

\* faulty variant: the record of a row that failed is appended as well
Decoded_KeepFailed(r) ==
    /\ dest' = [dest EXCEPT !.items = Append(dest.items, r.rec)]
    /\ IF r.err # Nil THEN Return(r.err) ELSE UNCHANGED <<pc, ret>>

\* the rest of a turn of the loop once the row is decoded with outcome r:
\* return the error, or append the new record and go on
Decoded(r) ==
    IF r.err # Nil THEN Return(r.err) /\ UNCHANGED dest
    ELSE /\ dest' = [dest EXCEPT !.items = Append(dest.items, r.rec)]
         /\ UNCHANGED <<pc, ret>>

\* the end of UnmarshalOne once the row is decoded in place with outcome r
DecodedOne(r, i) ==
    /\ dest' = [i.val EXCEPT !.items = <<r.rec>>]
    /\ Return(r.err)

\* one turn of the read loop of Reader.Unmarshal
UnmarshalLoop ==
    /\ pc = "Unmarshal"
    /\ pulls' = pulls + 1
    /\ UNCHANGED <<input, layout, call, dest0, pos0, layout0, ncalls, wvars, rt>>
    /\ LET p == Read(input, pos)
       IN  IF p.err = EOF THEN Return(Nil) /\ UNCHANGED <<pos, dest>>
           ELSE IF p.err # Nil THEN Return(p.err) /\ pos' = p.pos /\ UNCHANGED dest
           ELSE /\ pos' = p.pos
                /\ Decoded(setValue(p.record, zeroRecord(dest.elem.fields),
                                    dest.elem.fields, layout))

\* faulty variant: end-of-input is reported as success, as Unmarshal does
UnmarshalOne_EOFIsNil(i) ==
    /\ Enter("UnmarshalOne", i)
    /\ IF checkStruct(i) # Nil
       THEN /\ Return(checkStruct(i))
            /\ dest' = i.val
            /\ pulls' = 0
            /\ UNCHANGED <<pos, layout>>
       ELSE LET T == i.val.elem.fields
                p == Read(input, pos)
            IN  IF p.err # Nil
                THEN /\ Return(IF p.err = EOF THEN Nil ELSE p.err)
                     /\ pos' = p.pos
                     /\ pulls' = 1
                     /\ dest' = i.val
                     /\ UNCHANGED layout
                ELSE /\ pos' = p.pos
                     /\ pulls' = 1
                     /\ layout' = setLayout(T)
                     /\ DecodedOne(setValue(p.record, i.val.items[1], T, layout'), i)

\* faulty variant: the row is decoded under the layout the Reader held when
\* the call began, and the layout of the type is set afterwards
UnmarshalOne_StaleLayout(i) ==
    /\ Enter("UnmarshalOne", i)
    /\ IF checkStruct(i) # Nil
       THEN /\ Return(checkStruct(i))
            /\ dest' = i.val
            /\ pulls' = 0
            /\ UNCHANGED <<pos, layout>>
       ELSE LET T == i.val.elem.fields
                p == Read(input, pos)
            IN  IF p.err # Nil
                THEN /\ Return(p.err)
                     /\ pos' = p.pos
                     /\ pulls' = 1
                     /\ dest' = i.val
                     /\ UNCHANGED layout
                ELSE /\ pos' = p.pos
                     /\ pulls' = 1
                     /\ layout' = setLayout(T)
                     /\ DecodedOne(setValue(p.record, i.val.items[1], T, layout), i)

\* Reader.UnmarshalOne
UnmarshalOne(i) ==
    /\ Enter("UnmarshalOne", i)
    /\ IF checkStruct(i) # Nil
       THEN /\ Return(checkStruct(i))
            /\ dest' = i.val
            /\ pulls' = 0
            /\ UNCHANGED <<pos, layout>>
       ELSE LET T == i.val.elem.fields
                p == Read(input, pos)
            IN  IF p.err # Nil
                THEN /\ Return(p.err)
                     /\ pos' = p.pos
                     /\ pulls' = 1
                     /\ dest' = i.val
                     /\ UNCHANGED layout
                ELSE /\ pos' = p.pos
                     /\ pulls' = 1
                     /\ layout' = setLayout(T)
                     /\ DecodedOne(setValue(p.record, i.val.items[1], T, layout'), i)

NextR ==
    \/ \E i \in UnmarshalArgs : Unmarshal(i)
    \/ UnmarshalLoop
    \/ \E i \in UnmarshalOneArgs : UnmarshalOne(i)

(***************************************************************************)
(* The Writer                                                              *)
(***************************************************************************)
recCA == <<3, <<"C", "A">>, mkFloat(FALSE, 15, 1), mkTime(1867, 7, 1, 0, 0, 0, 0, 0), FALSE>>

recAbsent == <<NilPtr, <<>>, NilPtr, NilPtr, NilPtr>>

recPresent == <<PtrTo(2), <<"U", "S">>, PtrTo(mkFloat(FALSE, 17438, 3)), PtrTo(t1776), PtrTo(TRUE)>>

recJul4 == <<<<"a">>, mkTime(0, 7, 4, 0, 0, 0, 0, 0)>>

recOct31 == <<<<"b">>, mkTime(0, 10, 31, 0, 0, 0, 0, 0)>>

MarshalArgs ==
    {Arg(TRUE, SliceOf(StructType(country), <<recUS, recCA>>)),
     Arg(TRUE, SliceOf(StructType(holiday), <<recJul4, recOct31, recHoliday>>)),
     Arg(TRUE, SliceOf(StructType(country), <<>>)),
     Arg(TRUE, SliceOf(StructType(nullableCountry), <<recAbsent>>)),
     Arg(TRUE, SliceOf(StructType(badHoliday), <<recJul4>>)),
     Arg(TRUE, SliceOf(PtrType(country), <<recUS>>)),
     Arg(TRUE, SliceOf(Int64Type, <<>>)),
     Arg(TRUE, StructVal(country, recUS)),
     Arg(FALSE, SliceOf(StructType(country), <<recUS>>))}

\* the inputs of TestGetFieldNames, and a few more
HeaderArgs ==
    {Arg(FALSE, StructVal(country, recUS)),
     Arg(TRUE, StructVal(country, recUS)),
     Arg(FALSE, SliceOf(StructType(country), <<>>)),
     Arg(TRUE, SliceOf(StructType(country), <<recUS, recCA>>)),
     Arg(FALSE, SliceOf(PtrType(country), <<>>)),
     Arg(TRUE, SliceOf(PtrType(country), <<>>)),
     Arg(FALSE, StructVal(nullableCountry, recAbsent)),
     Arg(TRUE, SliceOf(StructType(holiday), <<>>)),
     Arg(FALSE, IntVal),
     Arg(TRUE, IntVal),
     Arg(FALSE, SliceOf(Int64Type, <<>>)),
     Arg(FALSE, SliceOf(PtrInt64Type, <<>>))}

\* csv.Writer.Write over its buffered writer: the row goes to the buffer; a
\* full buffer is first drained to the stream, and a failed drain is an
\* error that sticks
csvWrite(w, row, fail) ==
    IF w.err THEN [err |-> ErrWrite, w |-> w]
    ELSE IF Len(w.buf) < BufCap
    THEN [err |-> Nil, w |-> [w EXCEPT !.buf = Append(w.buf, row)]]
    ELSE IF fail THEN [err |-> ErrWrite, w |-> [w EXCEPT !.err = TRUE]]
    ELSE [err |-> Nil, w |-> [w EXCEPT !.stream = w.stream \o w.buf, !.buf = <<row>>]]

\* csv.Writer.Flush: the buffer is drained; the outcome is not reported
csvFlush(w, fail) ==
    IF w.err \/ Len(w.buf) = 0 THEN w
    ELSE IF fail THEN [w EXCEPT !.err = TRUE]
    ELSE [w EXCEPT !.stream = w.stream \o w.buf, !.buf = <<>>]

WriteEvent(row) == [op |-> "Write", row |-> row]

FlushEvent == [op |-> "Flush", row |-> <<>>]

InitWriter ==
    /\ out = [buf |-> <<>>, stream |-> <<>>, err |-> FALSE]
    /\ wlayout = <<>>
    /\ wpc = "idle"
    /\ wcall = [op |-> "none", ptr |-> FALSE]
    /\ src = IntVal
    /\ idx = 0
    /\ wlog = <<>>
    /\ wret = Nil
    /\ names = <<>>
    /\ wncalls = 0

WEnter(op, i) ==
    /\ wpc = "idle"
    /\ wncalls < MaxCalls
    /\ wncalls' = wncalls + 1
    /\ wcall' = [op |-> op, ptr |-> i.ptr]
    /\ src' = i.val
    /\ UNCHANGED <<ioFail, rvars, rt>>

WReturn(e) ==
    /\ wret' = e
    /\ wpc' = IF e = Panic THEN "panic" ELSE "idle"

\* what Writer.Marshal does with its source before the loop: its two checks,
\* then setLayout, whose NumField panics on a type that is no struct
checkSlice(i) ==
    IF ~i.ptr THEN ErrNotPointer
    ELSE IF i.val.kind # "Slice" THEN ErrNotSlice
    ELSE IF i.val.elem.kind # "Struct" THEN Panic
    ELSE Nil

\* Writer.Marshal up to the loop
Marshal(i) ==
    /\ WEnter("Marshal", i)
    /\ idx' = 0
    /\ wlog' = <<>>
    /\ UNCHANGED <<out, names>>
    /\ IF checkSlice(i) # Nil
       THEN WReturn(checkSlice(i)) /\ UNCHANGED wlayout
       ELSE /\ wlayout' = setLayout(i.val.elem.fields)
            /\ wpc' = "Marshal"
            /\ wret' = Nil

\* the rest of a turn of Marshal's loop once the row s was pushed with
\* outcome r
Pushed(r, s) ==
    /\ out' = r.w
    /\ wlog' = Append(wlog, WriteEvent(s))
    /\ IF r.err # Nil THEN WReturn(r.err) /\ UNCHANGED idx
       ELSE idx' = idx + 1 /\ UNCHANGED <<wpc, wret>>

\* faulty variant: the row of an element that failed to encode is pushed as
\* far as it was filled
Encoded_PushPartial(g) ==
    IF g.err # Nil
    THEN /\ out' = csvWrite(out, g.output, ioFail).w
         /\ wlog' = Append(wlog, WriteEvent(g.output))
         /\ WReturn(g.err)
         /\ UNCHANGED idx
    ELSE Pushed(csvWrite(out, g.output, ioFail), g.output)

\* the rest of a turn of Marshal's loop once the element is encoded with
\* outcome g: return the error, or push the row
Encoded(g) ==
    IF g.err # Nil THEN WReturn(g.err) /\ UNCHANGED <<out, wlog, idx>>
    ELSE Pushed(csvWrite(out, g.output, ioFail), g.output)

\* one turn of the loop of Writer.Marshal
MarshalLoop ==
    /\ wpc = "Marshal"
    /\ idx < Len(src.items)
    /\ UNCHANGED <<ioFail, wlayout, wcall, src, names, wncalls, rvars, rt>>
    /\ Encoded(getStrings(src.items[idx + 1], src.elem.fields, wlayout))

\* faulty variant: Marshal returns without the flush
MarshalFlush_NoFlush ==
    /\ wpc = "Marshal"
    /\ idx >= Len(src.items)
    /\ WReturn(Nil)
    /\ UNCHANGED <<ioFail, out, wlog, wlayout, wcall, src, idx, names, wncalls, rvars, rt>>

\* the end of Writer.Marshal: flush, return nil
MarshalFlush ==
    /\ wpc = "Marshal"
    /\ idx >= Len(src.items)
    /\ out' = csvFlush(out, ioFail)
    /\ wlog' = Append(wlog, FlushEvent)
    /\ WReturn(Nil)
    /\ UNCHANGED <<ioFail, wlayout, wcall, src, idx, names, wncalls, rvars, rt>>

\* the end of WriteHeader: the names pushed as one row with outcome r
HeaderPushed(r, headers) ==
    /\ out' = r.w
    /\ wlog' = <<WriteEvent(headers)>>
    /\ WReturn(r.err)

\* the end of WriteHeader once the names are known with outcome g
HeaderNamed(g) ==
    IF g.err # Nil THEN WReturn(g.err) /\ wlog' = <<>> /\ UNCHANGED out
    ELSE HeaderPushed(csvWrite(out, g.names, ioFail), g.names)

\* Writer.WriteHeader
WriteHeader(i) ==
    /\ WEnter("WriteHeader", i)
    /\ HeaderNamed(GetFieldNames(i))
    /\ UNCHANGED <<wlayout, idx, names>>

\* a call of GetFieldNames on its own
GetNames(i) ==
    /\ WEnter("GetFieldNames", i)
    /\ names' = GetFieldNames(i).names
    /\ wret' = GetFieldNames(i).err
    /\ wlog' = <<>>
    /\ UNCHANGED <<out, wlayout, wpc, idx>>

NextW ==
    \/ \E i \in MarshalArgs : Marshal(i)
    \/ MarshalLoop
    \/ MarshalFlush
    \/ \E i \in HeaderArgs : WriteHeader(i)
    \/ \E i \in HeaderArgs : GetNames(i)

(***************************************************************************)
(* One record through the encoder and back through the decoder, both with  *)
(* the layout of the record's type                                         *)
(***************************************************************************)
Floats == {mkFloat(FALSE, 17438, 3), mkFloat(TRUE, 5, 1), mkFloat(FALSE, 20, 0),
           FloatInf(FALSE), FloatNaN}

Times == {zeroTime, t1776, t1867, mkTime(0, 2, 29, 0, 0, 0, 0, 0),
          mkTime(1999, 12, 31, 23, 59, 59, 0, 60)}

Countries ==
    {<<n, s, f, t, b>> :
        n \in {0, -12}, s \in {<<"U", "S">>}, f \in Floats, t \in Times, b \in BOOLEAN}

Holidays == {<<s, t>> : s \in {<<>>, <<"h">>}, t \in Times}

RTStart(T, x) ==
    rt = [pc |-> "start", T |-> T, x |-> x, row |-> <<>>, err |-> Nil,
          y |-> zeroRecord(T)]

InitRT ==
    \/ \E x \in Holidays : RTStart(holiday, x)
    \/ \E x \in Countries : RTStart(country, x)
    \/ \E x \in {recAbsent, recPresent} : RTStart(nullableCountry, x)
    \/ RTStart(badHoliday, recJul4)

IdleRT == RTStart(holiday, recJul4)

RTEncoded(g) == rt' = [rt EXCEPT !.pc = "encoded", !.row = g.output, !.err = g.err]

RTDecoded(r) == rt' = [rt EXCEPT !.pc = "decoded", !.y = r.rec, !.err = r.err]

\* getStrings on the record
Encode ==
    /\ rt.pc = "start"
    /\ RTEncoded(getStrings(rt.x, rt.T, setLayout(rt.T)))
    /\ UNCHANGED <<rvars, wvars>>

\* setValue on the row getStrings made, into a fresh record
Decode ==
    /\ rt.pc = "encoded"
    /\ rt.err = Nil
    /\ RTDecoded(setValue(rt.row, zeroRecord(rt.T), rt.T, setLayout(rt.T)))
    /\ UNCHANGED <<rvars, wvars>>

RTParsed(r, row) == rt' = [rt EXCEPT !.pc = "parsed", !.row = row, !.y = r.rec, !.err = r.err]

\* setValue on a row of the input, into a fresh record
DecodeRow(row) ==
    /\ rt.pc = "start"
    /\ RTParsed(setValue(row, zeroRecord(rt.T), rt.T, setLayout(rt.T)), row)
    /\ UNCHANGED <<rvars, wvars>>

NextRT ==
    \/ Encode
    \/ Decode
    \/ \E row \in RowSet : DecodeRow(row)

(***************************************************************************)
(* Specifications: the Reader over every input, the Writer over a stream   *)
(* that works or fails, and the two conversions on their own               *)
(***************************************************************************)
InitR == InitReader /\ input \in Inputs /\ InitWriter /\ ioFail = FALSE /\ IdleRT

SpecR == InitR /\ [][NextR]_vars

\* the loop of Unmarshal is not suspended for ever
FairSpecR == SpecR /\ WF_vars(UnmarshalLoop)

InitW == InitReader /\ input = <<>> /\ InitWriter /\ ioFail \in BOOLEAN /\ IdleRT

SpecW == InitW /\ [][NextW]_vars

InitT == InitReader /\ input = <<>> /\ InitWriter /\ ioFail = FALSE /\ InitRT

SpecT == InitT /\ [][NextRT]_vars

(***************************************************************************)
(* Calls on a Reader and on a Writer, one after the other                  *)
(***************************************************************************)
\* the rows of the two record types with a timestamp, and a pull that fails
PullSetC ==
    {[err |-> FALSE, row |-> rowUS], [err |-> FALSE, row |-> rowJul4],
     [err |-> TRUE, row |-> <<>>]}

InputsC == UNION {[1..n -> PullSetC] : n \in 0..MaxRows}

\* no call is running on either instance, and the calls are not used up
Serialized == pc = "idle" /\ wpc = "idle" /\ ncalls + wncalls < MaxCalls

NextC ==
    \/ Serialized /\ \E i \in UnmarshalArgs : Unmarshal(i)
    \/ UnmarshalLoop
    \/ Serialized /\ \E i \in UnmarshalOneArgs : UnmarshalOne(i)
    \/ Serialized /\ \E i \in MarshalArgs : Marshal(i)
    \/ MarshalLoop
    \/ MarshalFlush

InitC == InitReader /\ input \in InputsC /\ InitWriter /\ ioFail = FALSE /\ IdleRT

SpecC == InitC /\ [][NextC]_vars

(***************************************************************************)
(* Properties of the Reader (SpecR)                                        *)
(***************************************************************************)
\* the record type of the destination of the call, a slice or a struct
DestFields == dest0.elem.fields

\* the call was given a pointer to a slice of structs
ValidSliceDest == call.ptr /\ dest0.kind = "Slice" /\ dest0.elem.kind = "Struct"

\* the call was given a pointer to a struct
ValidStructDest == call.ptr /\ dest0.kind = "Struct"

UnmarshalReturned == call.op = "Unmarshal" /\ pc = "idle"

\* the record a row decodes to under the destination's type, from zero
DecodedRow(k) ==
    setValue(input[k].row, zeroRecord(DestFields), DestFields, setLayout(DestFields)).rec

\* the records of the rows at input positions pos0+1 .. pos0+n, in order
DecodedRows(n) == [k \in 1..n |-> DecodedRow(pos0 + k)]

\* every pull from the call's start to the end of input is a row with one
\* token per field
WellFormedInput ==
    \A k \in (pos0 + 1)..Len(input) :
        ~input[k].err /\ Len(input[k].row) = NumField(DestFields)

\* C1: a successful Unmarshal over n well-formed rows leaves the destination
\* equal to its initial contents followed by the n decoded rows, in the
\* order they were pulled.
C1_AppendsInInputOrder ==
    (UnmarshalReturned /\ ValidSliceDest /\ ret = Nil /\ WellFormedInput)
        => dest.items = dest0.items \o DecodedRows(Len(input) - pos0)

\* two different rows appended behind the record the slice already held
C1_Witness ==
    /\ UnmarshalReturned /\ ret = Nil
    /\ pos0 = 0
    /\ input = <<[err |-> FALSE, row |-> rowUS], [err |-> FALSE, row |-> rowCA]>>
    /\ dest.items = <<recOld, recUS, recCA>>

\* the error the shape of the destination calls for, Nil if none
ShapeError ==
    CASE call.op = "Unmarshal" ->
           IF ~call.ptr THEN ErrNotPointer
           ELSE IF dest0.kind # "Slice" \/ dest0.elem.kind # "Struct" THEN ErrNotSlice
           ELSE Nil
      [] call.op = "UnmarshalOne" ->
           IF ~call.ptr THEN ErrNotPointer
           ELSE IF dest0.kind # "Struct" THEN ErrNotStruct
           ELSE Nil
      [] OTHER -> Nil

\* C2: a destination of the wrong shape is reported at once with the error
\* of its shape (ErrNotPointer, ErrNotSlice, ErrNotStruct); no row is pulled
\* and the destination is unchanged.
C2_ShapeErrorsBeforeAnyRow ==
    ShapeError # Nil
        => /\ pc = "idle"
           /\ ret = ShapeError
           /\ pulls = 0
           /\ pos = pos0
           /\ dest = dest0

\* a slice of int64 refused while the tokenizer still holds a row
C2_Witness ==
    /\ call.op = "Unmarshal" /\ pc = "idle"
    /\ call.ptr /\ dest0.kind = "Slice" /\ dest0.elem.kind = "Int64"
    /\ ret = ErrNotSlice
    /\ pos < Len(input)

\* the tokenizer reported end-of-input to the call: it pulled once more than
\* it consumed
EOFReported == pulls = (pos - pos0) + 1

\* C7: an Unmarshal with a valid destination that has left its loop has
\* returned; it returned success exactly when the tokenizer reported
\* end-of-input after every earlier row was decoded and appended; and a pull
\* error is returned as it is, with no further pull.
C7_ReturnsAtEndOfInput ==
    (call.op = "Unmarshal" /\ ValidSliceDest /\ pc # "Unmarshal")
        => /\ pc = "idle"
           /\ (ret = Nil) <=> EOFReported
           /\ ret = Nil => /\ pos = Len(input)
                           /\ Len(dest.items) = Len(dest0.items) + (pos - pos0)
           /\ (pos > pos0 /\ ~EOFReported /\ input[pos].err)
                 => ret = ErrPull /\ pulls = pos - pos0

\* C8: UnmarshalOne with a valid destination pulls once; a failed pull,
\* end-of-input included, is returned as it is and the destination is
\* unchanged.
C8_OnePullErrorVerbatim ==
    (call.op = "UnmarshalOne" /\ ValidStructDest)
        => /\ pulls = 1
           /\ pos0 >= Len(input) => (pc = "idle" /\ ret = EOF /\ dest = dest0)
           /\ (pos0 < Len(input) /\ input[pos0 + 1].err)
                 => (pc = "idle" /\ ret = ErrPull /\ dest = dest0)

\* end-of-input returned as the error io.EOF
C8_Witness ==
    /\ call.op = "UnmarshalOne" /\ ValidStructDest
    /\ pc = "idle" /\ ret = EOF /\ pulls = 1
    /\ dest = dest0

\* C9: when Unmarshal fails on the k-th row it pulled, the destination holds
\* its initial contents and then the records of rows 1 .. k-1 in order; no
\* record of the k-th row is appended and no later row is pulled.
C9_FailureKeepsEarlierRecords ==
    (UnmarshalReturned /\ ValidSliceDest /\ ret # Nil)
        => /\ pos - pos0 >= 1
           /\ pulls = pos - pos0
           /\ dest.items = dest0.items \o DecodedRows(pos - pos0 - 1)

\* the second row fails to convert, the first stays appended
C9_Witness ==
    /\ UnmarshalReturned /\ ret = Err("ErrSyntax", -1)
    /\ pos0 = 0 /\ pos = 2 /\ Len(input) = 2
    /\ input[1].row = rowUS /\ input[2].row = rowBadBool
    /\ dest.items = <<recOld, recUS>>

\* C10: a row that fails to decode has no effect on the caller's
\* destination: after a failed Unmarshal the slice holds no record of the
\* failing row, and after a failed UnmarshalOne every field of the record
\* has the value it had before the call.
C10_NoPartialRecord ==
    (pc = "idle" /\ ret # Nil)
        => /\ (call.op = "UnmarshalOne" /\ ValidStructDest) => dest = dest0
           /\ (call.op = "Unmarshal" /\ ValidSliceDest)
                 => Len(dest.items) = Len(dest0.items) + (pos - pos0 - 1)

(***************************************************************************)
(* Properties of the Writer (SpecW)                                        *)
(***************************************************************************)
\* the row an element of the source encodes to under the source's type
EncodedRow(k) ==
    getStrings(src.items[k], src.elem.fields, setLayout(src.elem.fields)).output

\* C4: a successful Marshal of n records has pushed exactly n rows, the k-th
\* the encoding of the k-th element, and then flushed exactly once, after
\* the last push and before it returned; inside the loop nothing is flushed.
C4_RowsThenOneFlush ==
    /\ (wcall.op = "Marshal" /\ wpc = "idle" /\ wret = Nil)
          => wlog = [k \in 1..Len(src.items) |-> WriteEvent(EncodedRow(k))]
                    \o <<FlushEvent>>
    /\ wpc = "Marshal"
          => /\ Len(wlog) = idx
             /\ \A k \in 1..Len(wlog) : wlog[k] = WriteEvent(EncodedRow(k))

\* the two countries of the test pushed in order, then the flush
C4_Witness ==
    /\ wcall.op = "Marshal" /\ wpc = "idle" /\ wret = Nil
    /\ wlog = <<WriteEvent(rowUS), WriteEvent(rowCA), FlushEvent>>

\* the source is a struct, or a slice of structs or of pointers to structs,
\* itself or behind one pointer
Nameable ==
    \/ src.kind = "Struct"
    \/ /\ src.kind = "Slice"
       /\ \/ src.elem.kind = "Struct"
          \/ src.elem.kind = "Ptr" /\ src.elem.pointee = "Struct"

\* the names of the fields of the source's record type, as declared
DeclaredNames == [k \in 1..Len(src.elem.fields) |-> src.elem.fields[k].name]

\* C5: GetFieldNames returns the field names in declaration order for a
\* struct, a slice of structs, a slice of pointers to structs and a pointer
\* to any of these, and ErrUnwritable for anything else; WriteHeader pushes
\* exactly these names as one row, and nothing when GetFieldNames fails.
C5_FieldNamesAndHeader ==
    /\ wcall.op = "GetFieldNames"
          => IF Nameable THEN wret = Nil /\ names = DeclaredNames
             ELSE wret = ErrUnwritable
    /\ wcall.op = "WriteHeader"
          => IF Nameable
             THEN wlog = <<WriteEvent(DeclaredNames)>> /\ wret \in {Nil, ErrWrite}
             ELSE wlog = <<>> /\ wret = ErrUnwritable

\* the header of a pointer to a slice of pointers to country
C5_Witness ==
    /\ wcall.op = "WriteHeader" /\ wcall.ptr
    /\ src.kind = "Slice" /\ src.elem.kind = "Ptr"
    /\ wret = Nil
    /\ wlog = <<WriteEvent(<<"ID", "Name", "GDP", "Founded", "Freedom">>)>>
    /\ out.buf = <<<<"ID", "Name", "GDP", "Founded", "Freedom">>>>

(***************************************************************************)
(* Properties of the two conversions (SpecT)                               *)
(***************************************************************************)
\* C3: for the pointer fields of nullableCountry: an empty token decodes to
\* an absent field without error, a valid token decodes to a present field
\* with the parsed value, and an absent field encodes to an empty token.
C3_NullableFields ==
    rt.T = nullableCountry
        => /\ (rt.pc = "parsed" /\ rt.row = rowNull)
                 => (rt.err = Nil /\ rt.y = recAbsent)
           /\ (rt.pc = "parsed" /\ rt.row = rowUS)
                 => (rt.err = Nil /\ rt.y = recPresent)
           /\ (rt.pc = "encoded" /\ rt.x = recAbsent)
                 => (rt.err = Nil /\ rt.row = rowNull)

\* the record type is built from the kinds setValue and getStrings convert
SupportedType(T) ==
    \A k \in 1..Len(T) :
        \/ T[k].kind \in {"String", "Int64", "Float64", "Bool"}
        \/ T[k].kind = "Struct" /\ T[k].typ = "time.Time"

\* equality of two field values as Go's == has it: NaN differs from itself
FieldEqual(f, a, b) ==
    IF f.kind = "Float64" THEN a.cls # "nan" /\ b.cls # "nan" /\ a = b ELSE a = b

RecordEqual(T, a, b) == \A k \in 1..Len(T) : FieldEqual(T[k], a[k], b[k])

TimeExpressible(t, l) ==
    LET chunks == layoutChunks(l)
        has(c) == \E j \in 1..Len(chunks) : chunks[j] = c
    IN  /\ IF has("stdLongYear") THEN t.year \in 0..9999 ELSE t.year = 0
        /\ has("stdMonth") \/ has("stdZeroMonth") \/ t.month = 1
        /\ has("stdUnderDay") \/ has("stdZeroDay") \/ t.day = 1
        /\ has("stdHour") \/ t.hour = 0
        /\ has("stdZeroMinute") \/ t.min = 0
        /\ has("stdZeroSecond") \/ t.sec = 0
        /\ t.nsec = 0
        /\ has("stdISO8601ColonTZ") \/ t.off = 0

\* no real field is NaN and every time field is expressible in the layout
\* its tag names, RFC3339 without a tag
Expressible(T, x) ==
    \A k \in 1..Len(T) :
        /\ T[k].kind = "Float64" => x[k].cls # "nan"
        /\ T[k].kind = "Struct"
              => TimeExpressible(x[k], IF T[k].tag = "" THEN RFC3339 ELSE T[k].tag)

RowPulled ==
    /\ call.op \in {"Unmarshal", "UnmarshalOne"}
    /\ ShapeError = Nil
    /\ pos > pos0
    /\ ~input[pos].err

\* the row the call pulled last
LastRow == input[pos].row

\* records the call has appended to the slice it was given
Appended == Len(dest.items) - Len(dest0.items)

\* C11: a row with fewer tokens than the record type has fields makes the
\* call return an error: the call does not fault, and Unmarshal appends no
\* record for that row.
C11_ShortRowIsAnError ==
    (RowPulled /\ Len(LastRow) < NumField(DestFields))
        => /\ pc = "idle"
           /\ ret # Nil
           /\ call.op = "Unmarshal" => Appended = (pos - pos0) - 1

\* C12: a row with more tokens than the record type has fields makes the
\* call return an error, and Unmarshal appends no record made of the first
\* tokens of the row.
C12_LongRowIsAnError ==
    (RowPulled /\ Len(LastRow) > NumField(DestFields))
        => /\ pc = "idle"
           /\ ret # Nil
           /\ call.op = "Unmarshal" => Appended = (pos - pos0) - 1

(***************************************************************************)
(* The checks of Writer.Marshal (SpecW)                                    *)
(***************************************************************************)
\* the error the shape of Marshal's source calls for, Nil if none
SourceShapeError ==
    IF wcall.op # "Marshal" THEN Nil
    ELSE IF ~wcall.ptr THEN ErrNotPointer
    ELSE IF src.kind # "Slice" THEN ErrNotSlice
    ELSE IF src.elem.kind \notin {"Struct", "Ptr"} THEN ErrNotSlice
    ELSE Nil

\* C13: Marshal of a source of the wrong shape (no pointer, a pointer to no
\* slice, a pointer to a slice of elements that are no records) returns the
\* error of that shape without faulting; no row is pushed, nothing flushed.
C13_MarshalValidates ==
    SourceShapeError # Nil
        => /\ wpc = "idle"
           /\ wret = SourceShapeError
           /\ wlog = <<>>

(***************************************************************************)
(* Fields of a kind the decoder has no case for (SpecR)                    *)
(***************************************************************************)
\* the kinds Reader.setValue has a case for
SupportedKind(f) == f.kind \in {"String", "Int64", "Float64", "Bool", "Struct"}

HasUnsupported(T) == \E k \in 1..Len(T) : ~SupportedKind(T[k])

\* the position, from 0, of the first field of an unsupported kind
FirstUnsupported(T) ==
    (CHOOSE k \in 1..Len(T) :
        ~SupportedKind(T[k]) /\ \A j \in 1..(k - 1) : SupportedKind(T[j])) - 1

\* the tokens of the fields before position n convert without error
PrefixConverts(row, T, n) ==
    setValue(row, zeroRecord(T), SubSeq(T, 1, n), setLayout(T)).err = Nil

\* C14: a record type with a field of unsupported kind passes the checks of
\* Unmarshal.  With no row left the call returns nil and appends nothing;
\* with a row, the first row decoded ends the call with the error that names
\* the position of that field, whatever the row holds there, and nothing is
\* appended.
C14_UnsupportedKindLazily ==
    (call.op = "Unmarshal" /\ ValidSliceDest /\ HasUnsupported(DestFields))
        => /\ pc = "Unmarshal" => pulls = 0 /\ ret = Nil
           /\ (pc = "idle" /\ pos0 = Len(input))
                 => ret = Nil /\ dest = dest0 /\ pulls = 1
           /\ (pc = "idle" /\ pos0 < Len(input) /\ ~input[pos0 + 1].err
                 /\ PrefixConverts(input[pos0 + 1].row, DestFields,
                                   FirstUnsupported(DestFields)))
                 => /\ ret = Err("ErrUnsupported", FirstUnsupported(DestFields))
                    /\ pos = pos0 + 1
                    /\ dest = dest0

\* a slice of badHolidayPointer refused on the first of two rows
C14_Witness ==
    /\ UnmarshalReturned /\ ValidSliceDest
    /\ DestFields = badHolidayPointer
    /\ input = <<[err |-> FALSE, row |-> rowJul4], [err |-> FALSE, row |-> rowOct31]>>
    /\ pos0 = 0 /\ pos = 1
    /\ ret = Err("ErrUnsupported", 0)

(***************************************************************************)
(* A slice of pointers to records as destination (SpecR)                   *)
(***************************************************************************)
\* the call was given a pointer to a slice of pointers to structs
PointerSliceDest ==
    /\ call.ptr
    /\ dest0.kind = "Slice"
    /\ dest0.elem.kind = "Ptr"
    /\ dest0.elem.pointee = "Struct"

\* C15: Unmarshal into a slice of pointers to records succeeds on
\* well-formed input and appends one element per row, in the order of the
\* rows, each the record decoded from its row.
C15_AcceptsSliceOfPointers ==
    (UnmarshalReturned /\ PointerSliceDest /\ WellFormedInput)
        => /\ ret = Nil
           /\ dest.items = dest0.items \o DecodedRows(Len(input) - pos0)

(***************************************************************************)
(* Marshal that fails at an element (SpecW)                                *)
(***************************************************************************)
\* Marshal passed its checks and returned an error: it failed at element
\* idx + 1, after idx elements were encoded and pushed
MarshalFailed ==
    /\ wcall.op = "Marshal"
    /\ wcall.ptr /\ src.kind = "Slice" /\ src.elem.kind = "Struct"
    /\ wpc = "idle"
    /\ wret # Nil

\* the error of encoding the element Marshal failed at, Nil if it encodes
EncodeError ==
    getStrings(src.items[idx + 1], src.elem.fields, setLayout(src.elem.fields)).err

\* the rows the tokenizer's writer holds, delivered and buffered, in order
Held == out.stream \o out.buf

LastN(s, n) == SubSeq(s, Len(s) - n + 1, Len(s))

\* the rows of the elements before the one Marshal failed at
EarlierRows == [k \in 1..idx |-> EncodedRow(k)]

\* the error returned is the one of the element, and Write was called for
\* the rows of the earlier elements in order, then at most once more, for
\* the row whose push failed; nothing was flushed
FailedAtElement ==
    /\ idx < Len(src.items)
    /\ wret = IF EncodeError # Nil THEN EncodeError ELSE ErrWrite
    /\ Len(wlog) = IF EncodeError # Nil THEN idx ELSE idx + 1
    /\ \A k \in 1..idx : wlog[k] = WriteEvent(EncodedRow(k))
    /\ EncodeError = Nil => wlog[idx + 1] = WriteEvent(EncodedRow(idx + 1))

\* C16 as claimed: when Marshal fails at an element it returns that error,
\* the tokenizer holds no row of that or a later element, and the rows of
\* the earlier elements have reached the output stream.
C16_EarlierRowsReachStream ==
    MarshalFailed
        => /\ FailedAtElement
           /\ Len(Held) >= idx /\ LastN(Held, idx) = EarlierRows
           /\ Len(out.stream) >= idx /\ LastN(out.stream, idx) = EarlierRows

\* C16: when Marshal fails at an element it returns that error, the
\* tokenizer holds no row of that or a later element, and the rows of the
\* earlier elements are the last rows the tokenizer holds, in order, some of
\* them possibly still in its buffer: Marshal has not flushed.
C16_EarlierRowsStayPushed ==
    MarshalFailed
        => /\ FailedAtElement
           /\ Len(Held) >= idx /\ LastN(Held, idx) = EarlierRows

\* the push of the third holiday fails on a full buffer over a stream that
\* refuses writes: the rows of the first two stay in the buffer
C16_Witness ==
    /\ MarshalFailed
    /\ wret = ErrWrite
    /\ idx = 2
    /\ out.buf = <<EncodedRow(1), EncodedRow(2)>>
    /\ out.stream = <<>>

(***************************************************************************)
(* The flush at the end of Marshal (SpecW)                                 *)
(***************************************************************************)
\* C18: Marshal returns nil only when its flush has delivered every row it
\* pushed: the rows of its elements are the last rows of the stream, and
\* the writer under the tokenizer has met no error of the stream.
C18_SuccessMeansDelivered ==
    (wcall.op = "Marshal" /\ wpc = "idle" /\ wret = Nil)
        => /\ Len(out.stream) >= Len(src.items)
           /\ LastN(out.stream, Len(src.items))
                 = [k \in 1..Len(src.items) |-> EncodedRow(k)]
           /\ Len(src.items) > 0 => ~out.err

(***************************************************************************)
(* The layout is the one of the type of the call (SpecC)                   *)
(***************************************************************************)
\* the record UnmarshalOne leaves in the caller's struct when the row is
\* decoded under the layout of the struct's type
DecodedInPlace ==
    setValue(LastRow, dest0.items[1], DestFields, setLayout(DestFields)).rec

\* C17: in every call that decodes or encodes a row, the layout in use is
\* the one of the record type given to that call, whatever layout earlier
\* calls left behind: Unmarshal has appended the rows decoded under it,
\* UnmarshalOne has stored the row decoded under it, and Marshal has pushed
\* the rows encoded under it.  A timestamp field without a tag is therefore
\* read and written in the default format.
C17_LayoutOfThisCall ==
    /\ (call.op = "Unmarshal" /\ ValidSliceDest)
          => /\ layout = setLayout(DestFields)
             /\ dest.items = dest0.items \o DecodedRows(Appended)
    /\ (call.op = "UnmarshalOne" /\ ValidStructDest /\ RowPulled)
          => /\ layout = setLayout(DestFields)
             /\ dest.items = <<DecodedInPlace>>
    /\ (wcall.op = "Marshal" /\ wcall.ptr /\ src.kind = "Slice"
          /\ src.elem.kind = "Struct")
          => /\ wlayout = setLayout(src.elem.fields)
             /\ Len(wlog) >= idx
             /\ \A k \in 1..idx : wlog[k] = WriteEvent(EncodedRow(k))

\* a Reader that held the override of holiday when Unmarshal into countries
\* began has decoded the timestamp of a country in the default format
C17_Witness ==
    /\ layout0 = setLayout(holiday)
    /\ UnmarshalReturned /\ ValidSliceDest /\ ret = Nil
    /\ DestFields = country
    /\ dest.items = <<recOld, recUS>>

====
